---- MODULE Spec2Model ----
(***************************************************************************)
(* A model of rclone's cmd/mountlib/fs.go: the inode allocator, the FS     *)
(* aggregate and the path resolver FS.Lookup, together with the directory  *)
(* cache (Dir.Lookup, its refresh, Dir.ForgetPath) that FS.Lookup drives.  *)
(* Strings are sequences of one-character strings.                         *)
(***************************************************************************)
EXTENDS Integers, Sequences, FiniteSets, TLC

VARIABLES
    inodeCount,   \* var inodeCount uint64
    callerPc,     \* per NewInode caller: "idle" | "added" (atomic add done, not yet returned)
    callerReg,    \* per caller: the value atomic.AddUint64 handed back, not yet returned
    increments,   \* history: the values produced by the atomic adds, in the order of the adds
    returned,     \* history: the values NewInode has returned, in the order of the returns
    tunables,     \* the process-wide tunables NoSeek, NoChecksum, ReadOnly, NoModTime, DirCacheTime, PollInterval
    features,     \* the backend's optional features: [DirChangeNotify : BOOLEAN]
    fsys,         \* the FS built by NewFS, or NoFS before construction
    notify,       \* the backend's registrations: a sequence of [callback, interval]
    nodes,        \* the nodes constructed so far, indexed by inode: [path, isFile, items, read]
                  \* and, as history, forgot, installed
    exists,       \* backend: the remote paths that exist now
    failing,      \* backend: TRUE while its list operation fails
    now,          \* the clock
    lookup,       \* per thread: the FS.Lookup call it is running
    api,          \* the Root, Statfs, PollChanges or Remove call just made, with what it returned
    deleteCalls,  \* backend, history: the remote paths it was asked to delete, in order
    ns,           \* a Nodes slice being sorted: the backend paths of its nodes
    ns0,          \* history: the slice as it was handed to the sort
    rc            \* the remote-control lookup just made: its parameters and what it returned

inodeVars == <<inodeCount, callerPc, callerReg, increments, returned>>

fsVars == <<tunables, features, fsys, notify>>

backendVars == <<exists, failing>>

apiVars == <<api, deleteCalls>>

sortVars == <<ns, ns0>>

sideVars == <<apiVars, sortVars, rc>>

vars == <<inodeVars, fsVars, nodes, backendVars, now, lookup, sideVars>>

\* ------------------------------------------------------------------ bounds

\* The largest value the inode counter is allowed to reach in a run.
MaxInode == 5

\* The goroutines that call NewInode concurrently.
Callers == {"c1", "c2", "c3"}

\* The longest path handed to FS.Lookup.
MaxPathLen == 4

\* The clock stops at MaxTime.
MaxTime == 2

\* The goroutines that call FS.Lookup.
Threads == {"t1", "t2"}

\* The number of PollChanges calls made on an FS.
MaxPolls == 2

\* The number of delete calls made on the backend.
MaxDeletes == 2

\* The length of a Nodes slice.
MaxNodes == 3

\* ------------------------------------------------------- inode allocator

\* atomic.AddUint64(&inodeCount, 1) hands back the value BEFORE the add.
AddUint64Result_ReturnsOld(count) == count

\* atomic.AddUint64(&inodeCount, 1): the value it hands back, the new count.
AddUint64Result(count) == count + 1

\* The atomic add of NewInode, one indivisible step of caller c.
NewInodeAdd(c) ==
    /\ callerPc[c] = "idle"
    /\ inodeCount < MaxInode
    /\ inodeCount' = inodeCount + 1
    /\ callerReg' = [callerReg EXCEPT ![c] = AddUint64Result(inodeCount)]
    /\ callerPc' = [callerPc EXCEPT ![c] = "added"]
    /\ increments' = Append(increments, AddUint64Result(inodeCount))
    /\ UNCHANGED <<sideVars, returned, fsVars, nodes, backendVars, now, lookup>>

\* NewInode returns to caller c the value its atomic add produced.
NewInodeReturn(c) ==
    /\ callerPc[c] = "added"
    /\ returned' = Append(returned, callerReg[c])
    /\ callerPc' = [callerPc EXCEPT ![c] = "idle"]
    /\ UNCHANGED <<sideVars, inodeCount, callerReg, increments, fsVars, nodes, backendVars, now, lookup>>

\* ------------------------------------------------------------- strings

\* The characters paths are made of.
Chars == {"a", "b", "/"}

Slash == "/"

\* The strings of at most n characters.
StringsUpTo(n) == UNION {[1..k -> Chars] : k \in 0..n}

\* The paths handed to FS.Lookup.
AllPaths == StringsUpTo(MaxPathLen)

\* strings.IndexRune(s, r): the 0-based index of the first r in s, or -1.
IndexRune(s, r) ==
    IF \E k \in 1..Len(s) : s[k] = r
    THEN (CHOOSE k \in 1..Len(s) : s[k] = r /\ \A j \in 1..(k - 1) : s[j] # r) - 1
    ELSE -1

\* Go's s[:i] and s[i:] for 0 <= i <= len(s).
SliceTo(s, i) == SubSeq(s, 1, i)
SliceFrom(s, i) == SubSeq(s, i + 1, Len(s))

\* ------------------------------------------------------------- backend

\* The remote paths the backend can hold, with the type tag of each.
EntryType ==
    (<<"a">> :> "dir") @@ (<<"b">> :> "file") @@ (<<"a", "/", "b">> :> "file")

Entries == DOMAIN EntryType

\* The names a directory entry can have, in the backend's listing order.
NameOrder == << <<"a">>, <<"b">> >>

\* The remote path of the child `name` of the directory at remote path `dir`.
JoinPath(dir, name) == IF dir = <<>> THEN name ELSE dir \o <<Slash>> \o name

\* The backend's list operation on the directory at remote path `dir`: the
\* names of its immediate children, in listing order.
ListDir(dir) ==
    SelectSeq(NameOrder, LAMBDA n : JoinPath(dir, n) \in exists)

\* ---------------------------------------------------------------- nodes

NoFS == [f |-> "none"]

\* The nil Node: no inode is 0.
NilNode == 0

\* The zero time.Time of a directory that holds no valid listing.
NoTime == -1

NoItems == [n \in {} |-> NilNode]

\* History kept with a directory: no listing has been installed yet.
NoListing == <<"-">>

\* newDir: a directory node with nothing cached. History: forgot, ForgetPath
\* hit the valid listing and no list call has been made since; installed, the
\* listing of the last refresh to complete.
NewDirNode(path) ==
    [path |-> path, isFile |-> FALSE, items |-> NoItems, read |-> NoTime,
     forgot |-> FALSE, installed |-> NoListing]

\* newFile: a file node.
NewFileNode(path) ==
    [path |-> path, isFile |-> TRUE, items |-> NoItems, read |-> NoTime,
     forgot |-> FALSE, installed |-> NoListing]

IsDir(n) == n # NilNode /\ ~nodes[n].isFile

\* ------------------------------------------------------------------- FS

\* PollChanges registers without asking whether the backend has the feature.
PollChangesRegs_Always(regs, feats, root, pollInterval) ==
    Append(regs, [callback |-> root, interval |-> pollInterval])

\* PollChanges' effect on the backend's registrations: the backend is handed
\* root.ForgetPath and the interval when it has the DirChangeNotify feature.
PollChangesRegs(regs, feats, root, pollInterval) ==
    IF feats.DirChangeNotify
    THEN Append(regs, [callback |-> root, interval |-> pollInterval])
    ELSE regs

\* The ReadOnly tunable is not copied: fsys.readOnly keeps its zero value.
CopyReadOnly_Skipped(tun) == FALSE

\* if ReadOnly { fsys.readOnly = true }
CopyReadOnly(tun) == IF tun.ReadOnly THEN TRUE ELSE FALSE

\* A PollInterval of zero asks for polling too.
PollWanted_NonNegative(interval) == interval >= 0

\* if PollInterval > 0
PollWanted(interval) == interval > 0

\* NewFS: builds the FS from the tunables, constructs the root directory
\* (which takes a new inode) and, with a positive PollInterval, calls PollChanges.
NewFS ==
    /\ fsys = NoFS
    /\ inodeCount < MaxInode
    /\ LET root == AddUint64Result(inodeCount) IN
        /\ fsys' = [f |-> "backend",
                    root |-> root,
                    noSeek |-> IF tunables.NoSeek THEN TRUE ELSE FALSE,
                    noChecksum |-> IF tunables.NoChecksum THEN TRUE ELSE FALSE,
                    readOnly |-> CopyReadOnly(tunables),
                    noModTime |-> IF tunables.NoModTime THEN TRUE ELSE FALSE,
                    dirCacheTime |-> tunables.DirCacheTime]
        /\ nodes' = Append(nodes, NewDirNode(<<>>))
        /\ inodeCount' = inodeCount + 1
        /\ notify' = IF PollWanted(tunables.PollInterval)
                     THEN PollChangesRegs(notify, features, root, tunables.PollInterval)
                     ELSE notify
    /\ UNCHANGED <<sideVars, callerPc, callerReg, increments, returned, tunables, features,
                   backendVars, now, lookup>>

\* ------------------------------------------------------------- FS.Lookup

IdleLookup ==
    [pc |-> "idle", orig |-> <<>>, path |-> <<>>, node |-> NilNode, err |-> "nil",
     dir |-> NilNode, name |-> <<>>, listing |-> <<>>, calls |-> <<>>,
     forgotSeen |-> FALSE, listed |-> FALSE, iters |-> 0]

\* name, path = path[:i], path[i+1:]  or  name, path = path, ""
SplitName(path) ==
    LET i == IndexRune(path, Slash) IN IF i < 0 THEN path ELSE SliceTo(path, i)

\* The rest of the path is cut at the slash, not after it: path[i:].
SplitRest_KeepsSlash(path) ==
    LET i == IndexRune(path, Slash) IN IF i < 0 THEN <<>> ELSE SliceFrom(path, i)

SplitRest(path) ==
    LET i == IndexRune(path, Slash) IN IF i < 0 THEN <<>> ELSE SliceFrom(path, i + 1)

\* The check for an empty name is missing: no segment is skipped.
IsEmptyName_Never(name) == FALSE

\* if name == "" { continue }
IsEmptyName(name) == name = <<>>

\* The type assertion lets any non-nil node through.
IsDirNode_Any(n) == n # NilNode

\* dir, ok := node.(*Dir)
IsDirNode(n) == IsDir(n)

\* Every Dir.Lookup is made on the root instead of the current node.
LookupCallee_Root(node) == fsys.root

\* The directory Dir.Lookup is called on: dir, the current node.
LookupCallee(node) == node

\* The error of Dir.Lookup is not looked at.
DirLookupFailed_Never(err) == FALSE

\* if err != nil { return nil, err }
DirLookupFailed(err) == err # "nil"

\* FS.Lookup is entered: node = fsys.root.
StartLookup(t, p) ==
    /\ fsys # NoFS
    /\ lookup[t].pc = "idle"
    /\ lookup' = [lookup EXCEPT ![t] =
                    [IdleLookup EXCEPT !.pc = "loop", !.orig = p, !.path = p,
                                       !.node = fsys.root]]
    /\ UNCHANGED <<sideVars, inodeVars, fsVars, nodes, backendVars, now>>

\* On its way out FS.Lookup makes the node it found the root of the FS.
LookupReturn_MovesRoot(t) ==
    /\ lookup[t].pc = "loop"
    /\ lookup[t].path = <<>>
    /\ lookup' = [lookup EXCEPT ![t].pc = "done"]
    /\ fsys' = [fsys EXCEPT !.root = lookup[t].node]
    /\ UNCHANGED <<sideVars, inodeVars, tunables, features, notify, nodes, backendVars,
                   now>>

\* for path != "" fails: return node, err.
LookupReturn(t) ==
    /\ lookup[t].pc = "loop"
    /\ lookup[t].path = <<>>
    /\ lookup' = [lookup EXCEPT ![t].pc = "done"]
    /\ UNCHANGED <<sideVars, inodeVars, fsVars, nodes, backendVars, now>>

\* One iteration with an empty name: continue.
LookupSkipEmpty(t) ==
    /\ lookup[t].pc = "loop"
    /\ lookup[t].path # <<>>
    /\ IsEmptyName(SplitName(lookup[t].path))
    /\ lookup' = [lookup EXCEPT ![t].path = SplitRest(lookup[t].path),
                                ![t].iters = @ + 1]
    /\ UNCHANGED <<sideVars, inodeVars, fsVars, nodes, backendVars, now>>

\* The type assertion is made before the name is looked at: an empty name
\* after a file returns nil, ENOENT too.
LookupNotDir_BeforeNameCheck(t) ==
    /\ lookup[t].pc = "loop"
    /\ lookup[t].path # <<>>
    /\ ~IsDirNode(lookup[t].node)
    /\ lookup' = [lookup EXCEPT ![t].path = SplitRest(lookup[t].path),
                                ![t].iters = @ + 1,
                                ![t].node = NilNode,
                                ![t].err = "ENOENT",
                                ![t].pc = "done"]
    /\ UNCHANGED <<sideVars, inodeVars, fsVars, nodes, backendVars, now>>

\* One iteration that finds the current node is no directory: return nil, ENOENT.
LookupNotDir(t) ==
    /\ lookup[t].pc = "loop"
    /\ lookup[t].path # <<>>
    /\ ~IsEmptyName(SplitName(lookup[t].path))
    /\ ~IsDirNode(lookup[t].node)
    /\ lookup' = [lookup EXCEPT ![t].path = SplitRest(lookup[t].path),
                                ![t].iters = @ + 1,
                                ![t].node = NilNode,
                                ![t].err = "ENOENT",
                                ![t].pc = "done"]
    /\ UNCHANGED <<sideVars, inodeVars, fsVars, nodes, backendVars, now>>

\* One iteration that calls dir.Lookup(name).
LookupCallDir(t) ==
    /\ lookup[t].pc = "loop"
    /\ lookup[t].path # <<>>
    /\ ~IsEmptyName(SplitName(lookup[t].path))
    /\ IsDirNode(lookup[t].node)
    /\ LET name == SplitName(lookup[t].path)
           dir == LookupCallee(lookup[t].node) IN
        lookup' = [lookup EXCEPT ![t].path = SplitRest(lookup[t].path),
                                 ![t].iters = @ + 1,
                                 ![t].dir = dir,
                                 ![t].name = name,
                                 ![t].calls = Append(@, [dir |-> dir, name |-> name,
                                                         node |-> NilNode, err |-> "pending",
                                                         current |-> TRUE]),
                                 ![t].pc = "check"]
    /\ UNCHANGED <<sideVars, inodeVars, fsVars, nodes, backendVars, now>>

\* node, err = dir.Lookup(name) has returned (n, e); on an error FS.Lookup
\* returns nil, err, otherwise the loop goes on.
AfterDirLookup(lk, n, e) ==
    LET logged == [lk EXCEPT !.calls[Len(lk.calls)].node = n,
                             !.calls[Len(lk.calls)].err = e,
                             !.listing = <<>>] IN
    IF DirLookupFailed(e)
    THEN [logged EXCEPT !.node = NilNode, !.err = e, !.pc = "done"]
    ELSE [logged EXCEPT !.node = n, !.err = e, !.pc = "loop"]

\* The caller takes the result; the thread is free for another call.
FinishLookup(t) ==
    /\ lookup[t].pc = "done"
    /\ lookup' = [lookup EXCEPT ![t] = IdleLookup]
    /\ UNCHANGED <<sideVars, inodeVars, fsVars, nodes, backendVars, now>>

\* ------------------------------------------------------------------ Dir

\* The directory's cached listing is unpopulated, invalidated or too old.
Stale(d) ==
    \/ nodes[d].read = NoTime
    \/ now - nodes[d].read >= fsys.dirCacheTime

\* The child mapping built from a listing, entry by entry: a child the old
\* mapping knows keeps its node, any other entry gets a node with a new inode.
\* Yields [items, made], made being the nodes constructed, in order.
RECURSIVE BuildItems(_, _, _, _, _)
BuildItems(entries, dirPath, old, count, acc) ==
    IF entries = <<>> THEN acc
    ELSE LET name == Head(entries)
             child == JoinPath(dirPath, name)
             known == name \in DOMAIN old
             inode == IF known THEN old[name] ELSE AddUint64Result(count + Len(acc.made))
             node == IF EntryType[child] = "dir" THEN NewDirNode(child) ELSE NewFileNode(child)
         IN BuildItems(Tail(entries), dirPath, old, count,
                       [items |-> (name :> inode) @@ acc.items,
                        made |-> IF known THEN acc.made ELSE Append(acc.made, node)])

\* The refresh adds the listing to the mapping instead of replacing it: the
\* children the listing no longer has stay in.
InstalledItems_Merged(listing, dirPath, old, count) ==
    LET built == BuildItems(listing, dirPath, old, count, [items |-> NoItems, made |-> <<>>])
    IN [built EXCEPT !.items = @ @@ old]

\* The mapping a refresh installs in place of `old`, given the listing.
InstalledItems(listing, dirPath, old, count) ==
    BuildItems(listing, dirPath, old, count, [items |-> NoItems, made |-> <<>>])

\* History: the Dir.Lookup calls a thread has logged on directory d and that
\* have returned were answered from a listing that is now replaced.
Outdated(lk, d) ==
    [lk EXCEPT !.calls = [i \in 1..Len(lk.calls) |->
        IF lk.calls[i].dir = d /\ lk.calls[i].err # "pending"
        THEN [lk.calls[i] EXCEPT !.current = FALSE]
        ELSE lk.calls[i]]]

\* Dir.Lookup is entered: does the listing have to be read again?
DirLookupCheck(t) ==
    /\ lookup[t].pc = "check"
    /\ lookup' = [lookup EXCEPT ![t].pc = IF Stale(lookup[t].dir) THEN "list" ELSE "find",
                                ![t].forgotSeen = nodes[lookup[t].dir].forgot,
                                ![t].listed = FALSE]
    /\ UNCHANGED <<sideVars, inodeVars, fsVars, nodes, backendVars, now>>

\* The refresh calls the backend's list operation, which answers.
DirList(t) ==
    /\ lookup[t].pc = "list"
    /\ ~failing
    /\ lookup' = [lookup EXCEPT ![t].listing = ListDir(nodes[lookup[t].dir].path),
                                ![t].listed = TRUE,
                                ![t].pc = "install"]
    /\ nodes' = [nodes EXCEPT ![lookup[t].dir].forgot = FALSE]
    /\ UNCHANGED <<sideVars, inodeVars, fsVars, backendVars, now>>

\* A failed refresh empties the directory's cache.
DirListFails_Evicts(t) ==
    /\ lookup[t].pc = "list"
    /\ failing
    /\ lookup' = [lookup EXCEPT ![t] =
                    AfterDirLookup([lookup[t] EXCEPT !.listed = TRUE], NilNode, "EBACKEND")]
    /\ nodes' = [nodes EXCEPT ![lookup[t].dir].items = NoItems,
                              ![lookup[t].dir].read = NoTime]
    /\ UNCHANGED <<sideVars, inodeVars, fsVars, backendVars, now>>

\* The refresh calls the backend's list operation, which fails: Dir.Lookup
\* returns the backend's error and leaves the directory as it was.
DirListFails(t) ==
    /\ lookup[t].pc = "list"
    /\ failing
    /\ lookup' = [lookup EXCEPT ![t] =
                    AfterDirLookup([lookup[t] EXCEPT !.listed = TRUE], NilNode, "EBACKEND")]
    /\ UNCHANGED <<sideVars, inodeVars, fsVars, nodes, backendVars, now>>

\* The refresh replaces the directory's child mapping, in one step, by the one
\* built from the listing, and stamps the directory with the current time.
DirInstall(t) ==
    /\ lookup[t].pc = "install"
    /\ LET d == lookup[t].dir
           built == InstalledItems(lookup[t].listing, nodes[d].path, nodes[d].items, inodeCount)
       IN /\ inodeCount + Len(built.made) <= MaxInode
          /\ inodeCount' = inodeCount + Len(built.made)
          /\ nodes' = [nodes EXCEPT ![d].items = built.items,
                                    ![d].read = now,
                                    ![d].installed = lookup[t].listing] \o built.made
    /\ lookup' = [u \in Threads |->
                    [Outdated(lookup[u], lookup[t].dir) EXCEPT
                        !.pc = IF u = t THEN "find" ELSE @]]
    /\ UNCHANGED <<sideVars, callerPc, callerReg, increments, returned, fsVars, backendVars, now>>

\* The child a directory's mapping holds under a name, or nil.
ChildOf(d, name) ==
    IF name \in DOMAIN nodes[d].items THEN nodes[d].items[name] ELSE NilNode

\* Dir.Lookup wraps the child it finds in a node of its own on every call.
DirFind_FreshNode(t) ==
    /\ lookup[t].pc = "find"
    /\ LET n == ChildOf(lookup[t].dir, lookup[t].name) IN
        IF n = NilNode
        THEN /\ lookup' = [lookup EXCEPT ![t] = AfterDirLookup(lookup[t], n, "ENOENT")]
             /\ UNCHANGED <<sideVars, inodeCount, nodes>>
        ELSE /\ inodeCount < MaxInode
             /\ inodeCount' = inodeCount + 1
             /\ nodes' = Append(nodes, nodes[n])
             /\ lookup' = [lookup EXCEPT ![t] =
                             AfterDirLookup(lookup[t], AddUint64Result(inodeCount), "nil")]
    /\ UNCHANGED <<sideVars, callerPc, callerReg, increments, returned, fsVars, backendVars, now>>

\* Dir.Lookup answers from the child mapping: the child, or not-found.
DirFind(t) ==
    /\ lookup[t].pc = "find"
    /\ LET n == ChildOf(lookup[t].dir, lookup[t].name) IN
        lookup' = [lookup EXCEPT ![t] =
                     AfterDirLookup(lookup[t], n, IF n = NilNode THEN "ENOENT" ELSE "nil")]
    /\ UNCHANGED <<sideVars, inodeVars, fsVars, nodes, backendVars, now>>

\* The directories of the cached tree below and including d.
RECURSIVE CachedDirs(_)
CachedDirs(d) ==
    {d} \cup UNION {CachedDirs(nodes[d].items[n]) :
                      n \in {m \in DOMAIN nodes[d].items : IsDir(nodes[d].items[m])}}

\* p addresses the directory at remote path q: q is p or lies below p.
Addresses(p, q) ==
    \/ p = <<>>
    \/ q = p
    \/ Len(q) > Len(p) /\ SubSeq(q, 1, Len(p) + 1) = p \o <<Slash>>

\* What ForgetPath(p) does to the node table: every cached directory it
\* addresses is marked stale; its child mapping and the nodes in it are kept.
Forgotten(root, p) ==
    [i \in 1..Len(nodes) |->
        IF i \in CachedDirs(root) /\ Addresses(p, nodes[i].path)
        THEN [nodes[i] EXCEPT !.read = NoTime,
                              !.forgot = @ \/ ~Stale(i)]
        ELSE nodes[i]]

\* The remote paths of directories, the arguments of ForgetPath.
DirPaths == {<<>>} \cup {e \in Entries : EntryType[e] = "dir"}

\* The backend calls a callback registered with it for a changed path p.
NotifyCallback(p) ==
    /\ fsys # NoFS
    /\ \E k \in 1..Len(notify) : nodes' = Forgotten(notify[k].callback, p)
    /\ nodes' # nodes
    /\ UNCHANGED <<sideVars, inodeVars, fsVars, backendVars, now, lookup>>

\* root.ForgetPath(p) called directly to bust the cache.
ForgetPath(p) ==
    /\ fsys # NoFS
    /\ nodes' = Forgotten(fsys.root, p)
    /\ nodes' # nodes
    /\ UNCHANGED <<sideVars, inodeVars, fsVars, backendVars, now, lookup>>

\* ---------------------------------------------------------- environment

\* Somebody creates or removes a remote path behind the mount's back.
BackendCreate(e) ==
    /\ e \notin exists
    /\ exists' = exists \cup {e}
    /\ UNCHANGED <<sideVars, inodeVars, fsVars, nodes, failing, now, lookup>>

BackendRemove(e) ==
    /\ e \in exists
    /\ exists' = exists \ {e}
    /\ UNCHANGED <<sideVars, inodeVars, fsVars, nodes, failing, now, lookup>>

\* The backend's list operation starts or stops failing.
BackendFlip ==
    /\ failing' = ~failing
    /\ UNCHANGED <<sideVars, inodeVars, fsVars, nodes, exists, now, lookup>>

\* Time passes.
Tick ==
    /\ now < MaxTime
    /\ now' = now + 1
    /\ UNCHANGED <<sideVars, inodeVars, fsVars, nodes, backendVars, lookup>>

\* No Root, Statfs, PollChanges or Remove call has been made.
NoCall ==
    [op |-> "none", node |-> NilNode, ret |-> NilNode, fs |-> NoFS, err |-> "nil",
     polls |-> 0]

\* No remote-control lookup has been made.
NoRc == [op |-> "none"]

\* Nothing has happened beside the lookups.
InitSide ==
    /\ api = NoCall
    /\ deleteCalls = <<>>
    /\ ns = <<>>
    /\ ns0 = <<>>
    /\ rc = NoRc

\* The settings of the process-wide tunables a run starts with.
TunableChoices ==
    {[NoSeek |-> b, NoChecksum |-> b, ReadOnly |-> b, NoModTime |-> b,
      DirCacheTime |-> 1, PollInterval |-> IF b THEN 1 ELSE 0] : b \in BOOLEAN}

\* The process has started; NewFS has not been called yet.
InitFS ==
    /\ inodeCount = 0
    /\ callerPc = [c \in Callers |-> "idle"]
    /\ callerReg = [c \in Callers |-> 0]
    /\ increments = <<>>
    /\ returned = <<>>
    /\ tunables \in TunableChoices
    /\ features \in [DirChangeNotify : BOOLEAN]
    /\ fsys = NoFS
    /\ notify = <<>>
    /\ nodes = <<>>
    /\ exists = Entries
    /\ failing = FALSE
    /\ now = 0
    /\ lookup = [t \in Threads |-> IdleLookup]
    /\ InitSide

\* The steps of the FS.Lookup call of thread t up to its return.
LookupRun(t) ==
    \/ LookupReturn(t)
    \/ LookupSkipEmpty(t)
    \/ LookupNotDir(t)
    \/ LookupCallDir(t)
    \/ DirLookupCheck(t)
    \/ DirList(t)
    \/ DirListFails(t)
    \/ DirInstall(t)
    \/ DirFind(t)

\* The steps of the FS.Lookup call of thread t.
LookupStep(t) ==
    \/ LookupRun(t)
    \/ FinishLookup(t)

\* A mount whose backend notifies changes and whose PollInterval is positive.
InitMount ==
    /\ InitFS
    /\ tunables.PollInterval > 0
    /\ features.DirChangeNotify

\* ------------------------------------------------- the other calls on FS

\* Root returns a nil *Dir.
FSRoot_Nil(fs) == NilNode

\* fsys.root, as Root returns it.
FSRoot(fs) == fs.root

\* Root: return fsys.root, nil.
Root ==
    /\ fsys # NoFS
    /\ api.op = "none"
    /\ api' = [api EXCEPT !.op = "Root", !.ret = FSRoot(fsys), !.err = "nil"]
    /\ UNCHANGED <<inodeVars, fsVars, nodes, backendVars, now, lookup, deleteCalls,
                   sortVars, rc>>

\* Statfs: return nil.
Statfs ==
    /\ fsys # NoFS
    /\ api.op = "none"
    /\ api' = [api EXCEPT !.op = "Statfs", !.err = "nil"]
    /\ UNCHANGED <<inodeVars, fsVars, nodes, backendVars, now, lookup, deleteCalls,
                   sortVars, rc>>

\* PollChanges(pollInterval): hand root.ForgetPath to the backend if it has
\* the feature; return fsys.
PollChanges(pollInterval) ==
    /\ fsys # NoFS
    /\ api.op = "none"
    /\ api.polls < MaxPolls
    /\ notify' = PollChangesRegs(notify, features, fsys.root, pollInterval)
    /\ api' = [api EXCEPT !.op = "PollChanges", !.fs = fsys, !.polls = @ + 1]
    /\ UNCHANGED <<inodeVars, tunables, features, fsys, nodes, backendVars, now, lookup,
                   deleteCalls, sortVars, rc>>

\* The directory whose child mapping holds node n, with the name it has there.
ParentsOf(n) ==
    {pn \in (1..Len(nodes)) \X {NameOrder[i] : i \in 1..Len(NameOrder)} :
        pn[2] \in DOMAIN nodes[pn[1]].items /\ nodes[pn[1]].items[pn[2]] = n}

\* The child mapping without the name.
Evicted(items, name) == [m \in DOMAIN items \ {name} |-> items[m]]

\* The backend's delete operation refuses: it is broken, the path is not
\* there, or it is a directory that still has entries.
DeleteRefused(path) ==
    \/ failing
    \/ path \notin exists
    \/ \E e \in exists : Len(e) > Len(path) /\ SubSeq(e, 1, Len(path)) = path

\* Remove on node n of a read-only FS: the read-only error, nothing else.
RemoveReadOnly(n) ==
    /\ fsys # NoFS
    /\ api.op = "none"
    /\ n \in 1..Len(nodes)
    /\ fsys.readOnly
    /\ api' = [api EXCEPT !.op = "Remove", !.node = n, !.err = "EROFS"]
    /\ UNCHANGED <<inodeVars, fsVars, nodes, backendVars, now, lookup, deleteCalls,
                   sortVars, rc>>

\* Remove on node n: the backend is asked to delete its remote path; when it
\* does, the node leaves its parent's child mapping; when it refuses, its
\* error is returned.
Remove(n) ==
    /\ fsys # NoFS
    /\ api.op = "none"
    /\ n \in 1..Len(nodes)
    /\ ~fsys.readOnly
    /\ Len(deleteCalls) < MaxDeletes
    /\ deleteCalls' = Append(deleteCalls, nodes[n].path)
    /\ IF DeleteRefused(nodes[n].path)
       THEN /\ api' = [api EXCEPT !.op = "Remove", !.node = n, !.err = "EBACKEND"]
            /\ UNCHANGED <<nodes, exists>>
       ELSE /\ api' = [api EXCEPT !.op = "Remove", !.node = n, !.err = "nil"]
            /\ exists' = exists \ {nodes[n].path}
            /\ nodes' = [d \in 1..Len(nodes) |->
                            IF \E pn \in ParentsOf(n) : pn[1] = d
                            THEN [nodes[d] EXCEPT !.items =
                                    Evicted(@, (CHOOSE pn \in ParentsOf(n) : pn[1] = d)[2])]
                            ELSE nodes[d]]
    /\ UNCHANGED <<inodeVars, fsVars, failing, now, lookup, sortVars, rc>>

\* The caller has taken what the call returned.
CallTaken ==
    /\ api.op # "none"
    /\ api' = [NoCall EXCEPT !.polls = api.polls]
    /\ UNCHANGED <<inodeVars, fsVars, nodes, backendVars, now, lookup, deleteCalls,
                   sortVars, rc>>

\* Every setting of the tunables: the four switches on or off together, the
\* poll interval negative, zero or positive.
TunableSettings ==
    {[NoSeek |-> b, NoChecksum |-> b, ReadOnly |-> b, NoModTime |-> b,
      DirCacheTime |-> 1, PollInterval |-> i] : b \in BOOLEAN, i \in {-1, 0, 1}}

\* The process has started with any setting of the tunables, over a backend
\* with or without change notification; NewFS has not been called yet.
InitAny ==
    /\ inodeCount = 0
    /\ callerPc = [c \in Callers |-> "idle"]
    /\ callerReg = [c \in Callers |-> 0]
    /\ increments = <<>>
    /\ returned = <<>>
    /\ tunables \in TunableSettings
    /\ features \in [DirChangeNotify : BOOLEAN]
    /\ fsys = NoFS
    /\ notify = <<>>
    /\ nodes = <<>>
    /\ exists = Entries
    /\ failing = FALSE
    /\ now = 0
    /\ lookup = [t \in Threads |-> IdleLookup]
    /\ InitSide

\* The paths the caller of the FS resolves between its other calls.
SomePaths == {<<"a", "/", "b">>, <<"b", "/", "a">>, <<"/", "a">>}

\* One caller uses the FS, one call at a time: NewFS, then Root, Statfs,
\* PollChanges, Remove and Lookup in any order, while the backend's list
\* operation breaks and recovers.
NextFS ==
    \/ NewFS
    \/ Root
    \/ Statfs
    \/ /\ lookup["t1"].pc = "idle"
       /\ \E i \in {1, 2} : PollChanges(i)
    \/ /\ lookup["t1"].pc = "idle"
       /\ \E n \in 1..MaxInode : RemoveReadOnly(n) \/ Remove(n)
    \/ CallTaken
    \/ /\ api.op = "none"
       /\ \E p \in SomePaths : StartLookup("t1", p)
    \/ LookupStep("t1")
    \/ BackendFlip

SpecFS == InitAny /\ [][NextFS]_vars

\* One thread resolves paths of up to MaxPathLen characters in a backend whose
\* namespace stands still, while the backend's list operation breaks and
\* recovers and time passes.
NextLookup ==
    \/ NewFS
    \/ \E p \in AllPaths : StartLookup("t1", p)
    \/ LookupStep("t1")
    \/ BackendFlip
    \/ Tick

SpecLookup == InitMount /\ [][NextLookup]_vars

\* The same, with the thread that is inside FS.Lookup always getting its next
\* step: the loop goes on and every Dir.Lookup call returns.
SpecLookupFair == SpecLookup /\ WF_vars(LookupStep("t1"))

InitInode ==
    /\ inodeCount = 0
    /\ callerPc = [c \in Callers |-> "idle"]
    /\ callerReg = [c \in Callers |-> 0]
    /\ increments = <<>>
    /\ returned = <<>>
    /\ tunables \in TunableChoices
    /\ features \in [DirChangeNotify : BOOLEAN]
    /\ fsys = NoFS
    /\ notify = <<>>
    /\ nodes = <<>>
    /\ exists = Entries
    /\ failing = FALSE
    /\ now = 0
    /\ lookup = [t \in Threads |-> IdleLookup]
    /\ InitSide

NextInode ==
    \E c \in Callers : NewInodeAdd(c) \/ NewInodeReturn(c)

SpecInode == InitInode /\ [][NextInode]_vars

\* ------------------------------------------------------------- claims

InFlight == {c \in Callers : callerPc[c] = "added"}

Range(s) == {s[i] : i \in 1..Len(s)}

\* C1: whatever the interleaving of the callers, no two NewInode calls obtain
\* the same value and no call obtains 0; this covers the values already
\* returned and the values of calls that have done their add and not yet
\* returned.
C1_UniqueNonZero ==
    /\ \A i, j \in 1..Len(returned) : i # j => returned[i] # returned[j]
    /\ \A i \in 1..Len(returned) : returned[i] # 0
    /\ \A c \in InFlight :
          /\ callerReg[c] # 0
          /\ callerReg[c] \notin Range(returned)
          /\ \A d \in InFlight \ {c} : callerReg[d] # callerReg[c]

\* C1 witness: two callers have both returned while a third is between its
\* add and its return.
C1_Witness ==
    /\ Len(returned) >= 2
    /\ InFlight # {}

\* C2 as stated: after n completed calls the counter equals n and the set of
\* returned values is exactly 1..n.
C2_AsStated ==
    LET n == Len(returned) IN
    /\ inodeCount = n
    /\ Range(returned) = 1..n

\* C2, amended: the counter starts at 0 and equals the number of atomic adds
\* done so far; the i-th add produces i, so the values produced are exactly
\* 1..inodeCount, increasing in the order of the adds; each of them has been
\* returned or is held by a call that has not returned yet, so the returned
\* values are exactly 1..n once all n calls have returned.
C2_ContiguousByIncrement ==
    /\ inodeCount = Len(increments)
    /\ \A i \in 1..Len(increments) : increments[i] = i
    /\ Range(returned) \cup {callerReg[c] : c \in InFlight} = 1..inodeCount
    /\ Len(returned) + Cardinality(InFlight) = inodeCount
    /\ InFlight = {} => (inodeCount = Len(returned) /\ Range(returned) = 1..Len(returned))

\* C2 witness: three calls have returned, none is in flight, and the first
\* value returned is not the first value produced.
C2_Witness ==
    /\ Len(returned) >= 3
    /\ InFlight = {}
    /\ returned[1] > returned[2]

\* ------------------------------------------------ paths, read as the spec reads them

\* The pieces of a path between its slashes: "a//b" has the pieces a, "", b.
RECURSIVE PiecesFrom(_, _, _)
PiecesFrom(s, k, cur) ==
    IF k > Len(s) THEN <<cur>>
    ELSE IF s[k] = Slash THEN <<cur>> \o PiecesFrom(s, k + 1, <<>>)
    ELSE PiecesFrom(s, k + 1, Append(cur, s[k]))

Pieces(s) == PiecesFrom(s, 1, <<>>)

\* The segments of a path: its non-empty pieces, left to right.
Segments(s) == SelectSeq(Pieces(s), LAMBDA x : x # <<>>)

\* A path made of non-empty segments only: no leading, trailing or doubled slash.
Regular(s) == s # <<>> /\ \A k \in 1..Len(Pieces(s)) : Pieces(s)[k] # <<>>

\* The segments joined by single slashes.
RECURSIVE JoinSegments(_)
JoinSegments(segs) ==
    IF segs = <<>> THEN <<>>
    ELSE IF Len(segs) = 1 THEN segs[1]
    ELSE segs[1] \o <<Slash>> \o JoinSegments(Tail(segs))

\* The path with its leading, trailing and duplicate slashes removed.
Normalize(s) == JoinSegments(Segments(s))

\* The Dir.Lookup calls of a lookup chain onto each other: the first is made on
\* the root, each later one on the node the call before it returned.
Chained(calls) ==
    \A i \in 1..Len(calls) :
        calls[i].dir = IF i = 1 THEN fsys.root ELSE calls[i - 1].node

\* C3: for a path of non-empty segments s1/../sn, FS.Lookup makes its Dir.Lookup
\* calls one per segment, left to right, the first on the root and each later
\* one on the node the previous call returned; and when it returns after the
\* call for sn, or after a call that failed, it returns what that call
\* returned: its node with a nil error, or nil with its error.
C3_LookupIsChainOfDirLookups ==
    \A t \in Threads :
        LET lk == lookup[t]
            segs == Segments(lk.orig)
            n == Len(lk.calls) IN
        (lk.pc # "idle" /\ Regular(lk.orig)) =>
            /\ n <= Len(segs)
            /\ \A i \in 1..n : lk.calls[i].name = segs[i]
            /\ Chained(lk.calls)
            /\ \A i \in 1..(n - 1) : lk.calls[i].err = "nil" /\ IsDir(lk.calls[i].node)
            /\ lk.pc = "done" =>
                /\ n >= 1
                /\ lk.calls[n].err # "pending"
                /\ (n = Len(segs) \/ lk.calls[n].err # "nil") =>
                      /\ lk.err = lk.calls[n].err
                      /\ lk.node = IF lk.calls[n].err = "nil" THEN lk.calls[n].node ELSE NilNode
                /\ (n < Len(segs) /\ lk.calls[n].err = "nil") => ~IsDir(lk.calls[n].node)

\* C3 witness: a/b has been resolved to the file b of the directory a by two
\* Dir.Lookup calls.
C3_Witness ==
    /\ lookup["t1"].pc = "done"
    /\ lookup["t1"].orig = <<"a", "/", "b">>
    /\ Len(lookup["t1"].calls) = 2
    /\ lookup["t1"].err = "nil"
    /\ lookup["t1"].node # NilNode
    /\ nodes[lookup["t1"].node].path = <<"a", "/", "b">>
    /\ nodes[lookup["t1"].node].isFile

\* ---------------------------------------- one path, spelled in two ways

\* Both spellings have been resolved; the results are taken.
TwinFinish ==
    /\ \A t \in Threads : lookup[t].pc = "done"
    /\ lookup' = [t \in Threads |-> IdleLookup]
    /\ UNCHANGED <<sideVars, inodeVars, fsVars, nodes, backendVars, now>>

\* Thread t1 resolves a path; when it has returned, thread t2 resolves the
\* same path with its leading, trailing and duplicate slashes removed. The backend's namespace stands still; its
\* list operation breaks and recovers, time passes and directories are
\* invalidated only between such pairs of calls.
NextTwin ==
    \/ NewFS
    \/ \E p \in AllPaths :
          /\ lookup["t2"].pc = "idle"
          /\ StartLookup("t1", p)
    \/ /\ lookup["t1"].pc = "done"
       /\ StartLookup("t2", Normalize(lookup["t1"].orig))
    \/ \E t \in Threads : LookupRun(t)
    \/ TwinFinish
    \/ /\ \A t \in Threads : lookup[t].pc = "idle"
       /\ \/ BackendFlip
          \/ Tick
          \/ \E p \in DirPaths : NotifyCallback(p) \/ ForgetPath(p)

SpecTwin == InitMount /\ [][NextTwin]_vars

\* C4: empty segments do not count. Two FS.Lookup calls on paths that are the
\* same once leading, trailing and duplicate slashes are removed, made one
\* after the other with nothing else happening, return the same node and the
\* same error after Dir.Lookup calls for the same names; and a path without
\* segments (empty, or slashes only) returns the root and a nil error without
\* any Dir.Lookup call.
C4_EmptySegmentsIgnored ==
    /\ (/\ \A t \in Threads : lookup[t].pc = "done"
        /\ lookup["t2"].orig = Normalize(lookup["t1"].orig)) =>
            /\ lookup["t1"].node = lookup["t2"].node
            /\ lookup["t1"].err = lookup["t2"].err
            /\ Len(lookup["t1"].calls) = Len(lookup["t2"].calls)
            /\ \A i \in 1..Len(lookup["t1"].calls) :
                  lookup["t1"].calls[i].name = lookup["t2"].calls[i].name
    /\ \A t \in Threads :
          (lookup[t].pc = "done" /\ Segments(lookup[t].orig) = <<>>) =>
              /\ lookup[t].node = fsys.root
              /\ lookup[t].err = "nil"
              /\ lookup[t].calls = <<>>

\* C4 witness: a//b and a/b have both been resolved, to the file a/b.
C4_Witness ==
    /\ \A t \in Threads : lookup[t].pc = "done"
    /\ lookup["t1"].orig = <<"a", "/", "/", "b">>
    /\ lookup["t2"].orig = <<"a", "/", "b">>
    /\ lookup["t2"].err = "nil"
    /\ lookup["t2"].node # NilNode
    /\ nodes[lookup["t2"].node].path = <<"a", "/", "b">>

\* C5: when a Dir.Lookup call of FS.Lookup returned a File and a segment of
\* the path was still to be resolved, FS.Lookup has returned nil and ENOENT and
\* that call was its last Dir.Lookup call.
C5_FilePrefixIsENOENT ==
    \A t \in Threads :
        LET lk == lookup[t]
            segs == Segments(lk.orig) IN
        lk.pc = "done" =>
            \A k \in 1..Len(lk.calls) :
                (/\ k < Len(segs)
                 /\ lk.calls[k].err = "nil"
                 /\ nodes[lk.calls[k].node].isFile) =>
                    /\ lk.node = NilNode
                    /\ lk.err = "ENOENT"
                    /\ Len(lk.calls) = k

\* C5 witness: b/a, with the file b, has returned ENOENT after the one
\* Dir.Lookup call that found b.
C5_Witness ==
    /\ lookup["t1"].pc = "done"
    /\ lookup["t1"].orig = <<"b", "/", "a">>
    /\ Len(lookup["t1"].calls) = 1
    /\ lookup["t1"].calls[1].err = "nil"
    /\ nodes[lookup["t1"].calls[1].node].isFile
    /\ lookup["t1"].err = "ENOENT"
    /\ lookup["t1"].node = NilNode

\* C6: a Dir.Lookup call that failed is the last Dir.Lookup call of its
\* FS.Lookup, which has returned nil together with the error of that call.
C6_FirstFailureIsReturned ==
    \A t \in Threads :
        LET lk == lookup[t] IN
        \A k \in 1..Len(lk.calls) :
            lk.calls[k].err \notin {"nil", "pending"} =>
                /\ k = Len(lk.calls)
                /\ lk.pc = "done"
                /\ lk.node = NilNode
                /\ lk.err = lk.calls[k].err

\* C6 witness: the lookup of a/b has stopped at the backend error of the
\* Dir.Lookup for a, with the segment b still to be resolved.
C6_Witness ==
    /\ lookup["t1"].pc = "done"
    /\ Len(Segments(lookup["t1"].orig)) = 2
    /\ Len(lookup["t1"].calls) = 1
    /\ lookup["t1"].calls[1].err = "EBACKEND"
    /\ lookup["t1"].err = "EBACKEND"

\* ------------------------------------------- concurrent lookups in one directory

\* The children of the root, as paths and as backend entries.
RootChildren == {e \in Entries : Len(e) = 1}

\* The entries of the root that come and go: its files.
RootFiles == {e \in RootChildren : EntryType[e] = "file"}

\* The steps of an FS.Lookup call whose path is one name: no segment is empty
\* and the root is a directory.
OneNameStep(t) ==
    \/ LookupReturn(t)
    \/ LookupCallDir(t)
    \/ DirLookupCheck(t)
    \/ DirList(t)
    \/ DirListFails(t)
    \/ DirInstall(t)
    \/ DirFind(t)
    \/ FinishLookup(t)

\* Two threads look up children of the root at the same time while files of
\* the root come and go in the backend, its list operation breaks and
\* recovers and the root is invalidated.
NextDir ==
    \/ NewFS
    \/ \E t \in Threads, p \in RootChildren : StartLookup(t, p)
    \/ \E t \in Threads : OneNameStep(t)
    \/ \E e \in RootFiles : BackendCreate(e) \/ BackendRemove(e)
    \/ BackendFlip
    \/ NotifyCallback(<<>>)
    \/ ForgetPath(<<>>)

SpecDir == InitMount /\ [][NextDir]_vars

Dirs == {d \in 1..Len(nodes) : ~nodes[d].isFile}

\* C7: a Dir.Lookup that is entered after ForgetPath hit the directory's valid
\* (populated, unexpired) listing, with no list call made on the directory
\* since, does not answer from the child mapping before it has called the
\* backend's list operation itself.
C7_ForgetForcesListing ==
    \A t \in Threads :
        (lookup[t].pc = "find" /\ lookup[t].forgotSeen) => lookup[t].listed

\* C8: the child mapping of a directory is empty as long as no refresh has
\* completed, and otherwise holds exactly the names of one listing, that of
\* the last refresh to complete, each name mapped to a node of that child's
\* remote path and type.
C8_CompleteSnapshot ==
    \A d \in Dirs :
        IF nodes[d].installed = NoListing
        THEN nodes[d].items = NoItems /\ nodes[d].read = NoTime
        ELSE /\ DOMAIN nodes[d].items = Range(nodes[d].installed)
             /\ \A name \in DOMAIN nodes[d].items :
                  LET c == nodes[d].items[name] IN
                  /\ c \in 1..Len(nodes)
                  /\ nodes[c].path = JoinPath(nodes[d].path, name)
                  /\ nodes[c].isFile = (EntryType[nodes[c].path] = "file")

\* C8 witness: the root holds the one-entry listing of a refresh that
\* completed after a two-entry listing had been installed (an entry is gone,
\* its node still exists) while the other thread holds a listing not yet
\* installed.
C8_Witness ==
    /\ fsys # NoFS
    /\ Len(nodes[fsys.root].installed) = 1
    /\ nodes[fsys.root].installed # NoListing
    /\ Len(nodes) >= 3
    /\ \E t \in Threads : lookup[t].pc = "install" /\ lookup[t].dir = fsys.root

\* C9: a refresh whose list call fails makes the lookup return nil and the
\* backend's error, and leaves the directory's child mapping and its
\* populated-timestamp as they were.
C9_FailedRefreshKeepsSnapshot ==
    [][\A t \in Threads :
          (lookup[t].pc = "list" /\ failing /\ lookup'[t] # lookup[t]) =>
              /\ lookup'[t].pc = "done"
              /\ lookup'[t].node = NilNode
              /\ lookup'[t].err = "EBACKEND"
              /\ nodes'[lookup[t].dir].items = nodes[lookup[t].dir].items
              /\ nodes'[lookup[t].dir].read = nodes[lookup[t].dir].read]_vars

\* C9 witness: a lookup has returned the backend's error from a directory
\* that still holds the two children and the timestamp of an earlier refresh.
C9_Witness ==
    \E t \in Threads :
        /\ lookup[t].pc = "done"
        /\ lookup[t].err = "EBACKEND"
        /\ Len(lookup[t].calls) = 1
        /\ Cardinality(DOMAIN nodes[lookup[t].calls[1].dir].items) = 2
        /\ nodes[lookup[t].calls[1].dir].read # NoTime

\* C10: two Dir.Lookup calls for the same name in the same directory that
\* were both answered from the child mapping with no refresh of the directory
\* completing since the earlier answer, got the same answer: the same node, or
\* both not-found.
C10_SameChildSameNode ==
    \A t, u \in Threads :
        \A i \in 1..Len(lookup[t].calls), j \in 1..Len(lookup[u].calls) :
            LET a == lookup[t].calls[i]
                b == lookup[u].calls[j] IN
            (/\ a.dir = b.dir
             /\ a.name = b.name
             /\ a.current /\ b.current
             /\ a.err \in {"nil", "ENOENT"}
             /\ b.err \in {"nil", "ENOENT"}) =>
                (a.node = b.node /\ a.err = b.err)

\* C10 witness: both threads hold the node of the same child of the root,
\* answered from the same listing, which has been invalidated since.
C10_Witness ==
    /\ \A t \in Threads :
          /\ lookup[t].pc = "done"
          /\ lookup[t].orig = <<"a">>
          /\ lookup[t].err = "nil"
          /\ lookup[t].calls[1].current
    /\ lookup["t1"].node = lookup["t2"].node
    /\ nodes[fsys.root].read = NoTime

\* C11: in an FS constructed with the ReadOnly tunable set, every Remove call
\* returns the read-only error, makes no delete call on the backend (none is
\* ever made on such an FS), leaves the backend's namespace alone and leaves
\* every directory's child mapping, the parent's included, as it was.
C11_ReadOnlyRemoveFails ==
    /\ [](tunables.ReadOnly => deleteCalls = <<>>)
    /\ [][(api.op = "none" /\ api'.op = "Remove" /\ tunables.ReadOnly) =>
            /\ api'.err = "EROFS"
            /\ deleteCalls' = deleteCalls
            /\ exists' = exists
            /\ nodes' = nodes]_vars

\* C11 witness: Remove on a node that a directory of a read-only FS holds in
\* its child mapping has returned the read-only error.
C11_Witness ==
    /\ api.op = "Remove"
    /\ tunables.ReadOnly
    /\ api.err = "EROFS"
    /\ ParentsOf(api.node) # {}

\* C12: on a backend without the DirChangeNotify feature no callback is ever
\* registered, however many PollChanges calls are made, and every PollChanges
\* call returns the FS it was called on and leaves the registrations, the FS,
\* the tunables, the nodes with their cached listings and the backend as they
\* were.
C12_PollChangesNoOpWithoutFeature ==
    /\ [](~features.DirChangeNotify => notify = <<>>)
    /\ [][(api.op = "none" /\ api'.op = "PollChanges" /\ ~features.DirChangeNotify) =>
            /\ api'.fs = fsys
            /\ UNCHANGED <<notify, fsys, tunables, nodes, backendVars, inodeVars, lookup,
                           deleteCalls>>]_vars

\* C12 witness: the second PollChanges call on an FS whose backend lacks the
\* feature has returned, with a listing cached in the root and nothing
\* registered.
C12_Witness ==
    /\ api.op = "PollChanges"
    /\ api.polls = 2
    /\ ~features.DirChangeNotify
    /\ api.fs = fsys
    /\ nodes[fsys.root].read # NoTime
    /\ notify = <<>>

\* C13: nothing is registered before NewFS; the NewFS step registers exactly
\* one subscription when the PollInterval tunable is positive and the backend
\* has the DirChangeNotify feature, and none otherwise; the subscription
\* carries the ForgetPath of the root directory that this NewFS constructed
\* (a new, empty directory node at the backend's root) and the configured
\* interval.
C13_NewFSRegistersOnce ==
    /\ [](fsys = NoFS => notify = <<>>)
    /\ [][(fsys = NoFS /\ fsys' # NoFS) =>
            /\ fsys'.root \in (1..Len(nodes')) \ (1..Len(nodes))
            /\ nodes'[fsys'.root] = NewDirNode(<<>>)
            /\ notify' = IF tunables.PollInterval > 0 /\ features.DirChangeNotify
                         THEN <<[callback |-> fsys'.root,
                                 interval |-> tunables.PollInterval]>>
                         ELSE <<>>]_vars

\* C13 witness: NewFS has returned with a positive PollInterval on a backend
\* that has the feature, no PollChanges call has been made since, and the one
\* subscription is the root's.
C13_Witness ==
    /\ fsys # NoFS
    /\ api.polls = 0
    /\ tunables.PollInterval > 0
    /\ features.DirChangeNotify
    /\ notify = <<[callback |-> fsys.root, interval |-> tunables.PollInterval]>>

\* C14: once NewFS has returned, whatever Root, Lookup, PollChanges, Statfs
\* (and Remove) calls follow, the FS's root reference never changes, every
\* Root call returns a nil error and that root, which is the one directory
\* node at the backend's root that NewFS constructed, and every Statfs call
\* returns a nil error.
C14_RootAndStatfsSucceed ==
    /\ [][fsys # NoFS => (fsys' # NoFS /\ fsys'.root = fsys.root)]_vars
    /\ [](api.op = "Root" =>
            /\ api.err = "nil"
            /\ api.ret = fsys.root
            /\ api.ret = 1
            /\ ~nodes[api.ret].isFile
            /\ \A n \in 1..Len(nodes) : nodes[n].path = <<>> => n = api.ret)
    /\ [](api.op = "Statfs" => api.err = "nil")

\* C14 witness: Root has returned the root after a Lookup that filled the
\* cache and two PollChanges calls.
C14_Witness ==
    /\ api.op = "Root"
    /\ api.polls = 2
    /\ Len(nodes) > 2
    /\ api.err = "nil"
    /\ api.ret = fsys.root

\* ---------------------------------------------------------------- Nodes

\* The byte of each character of a remote path.
CharCode == ("/" :> 47) @@ ("a" :> 97) @@ ("b" :> 98) @@ ("c" :> 99)

\* a < b on Go strings: the first byte that differs decides; with none, the
\* shorter string is the smaller.
RECURSIVE StrLess(_, _)
StrLess(a, b) ==
    IF b = <<>> THEN FALSE
    ELSE IF a = <<>> THEN TRUE
    ELSE IF Head(a) = Head(b) THEN StrLess(Tail(a), Tail(b))
    ELSE CharCode[Head(a)] < CharCode[Head(b)]

\* ns[i].DirEntry().Remote()
Remote(n) == n.remote

\* Len
NodesLen(s) == Len(s)

\* Swap: ns[i], ns[j] = ns[j], ns[i]
NodesSwap(s, i, j) == [s EXCEPT ![i] = s[j], ![j] = s[i]]

\* Less compares the other way round.
NodesLess_Descending(s, i, j) == StrLess(Remote(s[j]), Remote(s[i]))

\* Less: ns[i].DirEntry().Remote() < ns[j].DirEntry().Remote()
NodesLess(s, i, j) == StrLess(Remote(s[i]), Remote(s[j]))

\* The backend paths of the nodes of a slice.
RemoteChoices ==
    {<<"a">>, <<"b">>, <<"c">>, <<"a", "b">>, <<"a", "/", "b">>}

\* The Nodes slices of up to MaxNodes nodes; id tells nodes with the same
\* backend path apart.
NodeSlices ==
    UNION {{[i \in 1..n |-> [id |-> i, remote |-> r[i]]] : r \in [1..n -> RemoteChoices]} :
           n \in 0..MaxNodes}

\* A step of sort.Sort(ns): two elements that Less finds out of order are
\* swapped.
NodesSort ==
    /\ \E i, j \in 1..NodesLen(ns) :
          /\ i < j
          /\ NodesLess(ns, j, i)
          /\ ns' = NodesSwap(ns, i, j)
    /\ UNCHANGED <<inodeVars, fsVars, nodes, backendVars, now, lookup, apiVars, ns0, rc>>

\* sort.Sort(ns) has returned: Less finds no two elements out of order.
SortDone == \A i, j \in 1..NodesLen(ns) : i < j => ~NodesLess(ns, j, i)

\* Some Nodes slice is about to be sorted; no FS has been made.
InitSort ==
    /\ inodeCount = 0
    /\ callerPc = [c \in Callers |-> "idle"]
    /\ callerReg = [c \in Callers |-> 0]
    /\ increments = <<>>
    /\ returned = <<>>
    /\ tunables = [NoSeek |-> FALSE, NoChecksum |-> FALSE, ReadOnly |-> FALSE,
                   NoModTime |-> FALSE, DirCacheTime |-> 1, PollInterval |-> 0]
    /\ features = [DirChangeNotify |-> FALSE]
    /\ fsys = NoFS
    /\ notify = <<>>
    /\ nodes = <<>>
    /\ exists = Entries
    /\ failing = FALSE
    /\ now = 0
    /\ lookup = [t \in Threads |-> IdleLookup]
    /\ api = NoCall
    /\ deleteCalls = <<>>
    /\ rc = NoRc
    /\ ns0 \in NodeSlices
    /\ ns = ns0

NextSort == NodesSort

SpecSort == InitSort /\ [][NextSort]_vars

\* Lexicographic order on paths: a is a proper prefix of b, or at the first
\* position where they differ a has the smaller byte.
LexLess(a, b) ==
    \E k \in 1..Len(b) :
        /\ k - 1 <= Len(a)
        /\ SubSeq(a, 1, k - 1) = SubSeq(b, 1, k - 1)
        /\ \/ Len(a) = k - 1
           \/ CharCode[a[k]] < CharCode[b[k]]

\* The backend paths of a slice, in order.
RemotesOf(s) == [i \in 1..Len(s) |-> s[i].remote]

\* C15: Less(i, j) holds exactly when the backend path of element i is
\* lexicographically strictly smaller than that of element j; the slice always
\* holds the nodes it started with, each once; and once the sort is done the
\* backend paths are in non-decreasing lexicographic order, so paths b, a, c
\* have become a, b, c.
C15_NodesSortByRemote ==
    /\ \A i, j \in 1..Len(ns) :
          NodesLess(ns, i, j) <=> LexLess(ns[i].remote, ns[j].remote)
    /\ Len(ns) = Len(ns0)
    /\ \A k \in 1..Len(ns0) : Cardinality({i \in 1..Len(ns) : ns[i] = ns0[k]}) = 1
    /\ SortDone =>
          /\ \A i, j \in 1..Len(ns) : i < j => ~LexLess(ns[j].remote, ns[i].remote)
          /\ RemotesOf(ns0) = << <<"b">>, <<"a">>, <<"c">> >> =>
                RemotesOf(ns) = << <<"a">>, <<"b">>, <<"c">> >>

\* C15 witness: the slice with paths b, a, c has been sorted to a, b, c.
C15_Witness ==
    /\ RemotesOf(ns0) = << <<"b">>, <<"a">>, <<"c">> >>
    /\ ns # ns0
    /\ SortDone
    /\ RemotesOf(ns) = << <<"a">>, <<"b">>, <<"c">> >>

\* ------------------------------------------------- remote-control lookups

\* The parameter keys a request carries and the keys a lookup is asked for.
ParamKeys == {"fs", "remote", "potato"}

AskedKeys == ParamKeys \cup {"fsX", "remoteX"}

\* The values of a parameter: the string the mock Fs is cached under, and a
\* string that names no cached Fs.
ParamValues == {"/", "hello"}

\* Params: the requests that carry some of the keys.
AllParams == UNION {[K -> ParamValues] : K \in SUBSET ParamKeys}

\* cache.Put("/", f): the registry holds the mock Fs under "/".
Cache == "/" :> "mock"

\* A key that the request lacks reads as the empty string, with no error.
GetString_Default(in, key) ==
    IF key \in DOMAIN in
    THEN [val |-> in[key], err |-> "nil"]
    ELSE [val |-> "", err |-> "nil"]

\* The string parameter `key` of the request, or an error if it has none.
GetString(in, key) ==
    IF key \in DOMAIN in
    THEN [val |-> in[key], err |-> "nil"]
    ELSE [val |-> "", err |-> "ErrParamNotFound"]

\* The registry's answers for a configuration string: the cached Fs, or, for
\* a string it does not hold, a new Fs or the error of making one.
CacheGet(fsString) ==
    IF fsString \in DOMAIN Cache
    THEN {[f |-> Cache[fsString], err |-> "nil"]}
    ELSE {[f |-> "new", err |-> "nil"], [f |-> "nil", err |-> "ErrNewFs"]}

\* What GetFsNamed(in, fsName) can return.
GetFsNamedResults(in, fsName) ==
    LET s == GetString(in, fsName) IN
    IF s.err # "nil" THEN {[f |-> "nil", err |-> s.err]} ELSE CacheGet(s.val)

\* GetFsNamed(ctx, in, fsName)
GetFsNamed(in, fsName) ==
    /\ \E r \in GetFsNamedResults(in, fsName) :
          rc' = [op |-> "GetFsNamed", params |-> in, fsName |-> fsName,
                 remoteName |-> "", f |-> r.f, remote |-> "", err |-> r.err]
    /\ UNCHANGED <<inodeVars, fsVars, nodes, backendVars, now, lookup, apiVars, sortVars>>

\* GetFsAndRemoteNamed(ctx, in, fsName, remoteName): the remote parameter is
\* read first, then the Fs is looked up as GetFsNamed does.
GetFsAndRemoteNamed(in, fsName, remoteName) ==
    /\ LET s == GetString(in, remoteName) IN
        IF s.err # "nil"
        THEN rc' = [op |-> "GetFsAndRemoteNamed", params |-> in, fsName |-> fsName,
                    remoteName |-> remoteName, f |-> "nil", remote |-> s.val,
                    err |-> s.err]
        ELSE \E r \in GetFsNamedResults(in, fsName) :
                rc' = [op |-> "GetFsAndRemoteNamed", params |-> in, fsName |-> fsName,
                       remoteName |-> remoteName, f |-> r.f, remote |-> s.val,
                       err |-> r.err]
    /\ UNCHANGED <<inodeVars, fsVars, nodes, backendVars, now, lookup, apiVars, sortVars>>

\* The registry holds the mock Fs; no lookup has been made.
InitRc ==
    /\ InitSort
    /\ ns0 = <<>>

NextRc ==
    \/ \E in \in AllParams, k \in AskedKeys : GetFsNamed(in, k)
    \/ \E in \in AllParams, k, r \in AskedKeys : GetFsAndRemoteNamed(in, k, r)

SpecRc == InitRc /\ [][NextRc]_vars

\* The request has the key and its value names an Fs the registry holds.
NamesCachedFs(in, key) == key \in DOMAIN in /\ in[key] \in DOMAIN Cache

\* C16: GetFsNamed returns a non-nil Fs and no error when the request has the
\* fs key asked for and its value names a cached Fs, and an error with a nil
\* Fs when the request lacks that key; GetFsAndRemoteNamed returns a non-nil
\* Fs, the remote parameter exactly as given and no error when the request
\* has both keys and the fs value names a cached Fs, and an error with a nil
\* Fs when the request lacks the fs key or the remote key.
C16_RcLookups ==
    /\ rc.op = "GetFsNamed" =>
          /\ NamesCachedFs(rc.params, rc.fsName) => (rc.f # "nil" /\ rc.err = "nil")
          /\ rc.fsName \notin DOMAIN rc.params => (rc.f = "nil" /\ rc.err # "nil")
    /\ rc.op = "GetFsAndRemoteNamed" =>
          /\ (NamesCachedFs(rc.params, rc.fsName) /\ rc.remoteName \in DOMAIN rc.params) =>
                /\ rc.f # "nil"
                /\ rc.err = "nil"
                /\ rc.remote = rc.params[rc.remoteName]
          /\ (rc.fsName \notin DOMAIN rc.params \/ rc.remoteName \notin DOMAIN rc.params) =>
                (rc.f = "nil" /\ rc.err # "nil")

\* C16 witness: GetFsAndRemoteNamed asked for "fs" and "remote" of the request
\* {fs: "/", remote: "hello"} has returned the mock Fs and "hello".
C16_Witness ==
    /\ rc.op = "GetFsAndRemoteNamed"
    /\ rc.params = ("fs" :> "/") @@ ("remote" :> "hello")
    /\ rc.fsName = "fs"
    /\ rc.remoteName = "remote"
    /\ rc.f = "mock"
    /\ rc.remote = "hello"
    /\ rc.err = "nil"

\* The positions of a thread inside Dir.Lookup.
InDirLookup == {"check", "list", "install", "find"}

\* C17: every step of an FS.Lookup call, from its entry to its return,
\* whatever the path and the outcome, leaves the FS (backend handle, root
\* reference, the five configuration values), the tunables, the backend's
\* features, registrations and namespace and the other calls' state as they
\* were; the nodes and the inode counter change only in steps made inside a
\* Dir.Lookup call.
C17_LookupIsPureTraversal ==
    [][\A t \in Threads :
          (lookup'[t].pc # lookup[t].pc \/ lookup'[t].path # lookup[t].path) =>
              /\ UNCHANGED <<fsys, tunables, features, notify, exists, failing, apiVars>>
              /\ lookup[t].pc \notin InDirLookup => UNCHANGED <<nodes, inodeVars>>]_vars

\* C17 witness: a lookup that went through two Dir.Lookup calls and a refresh
\* of the root has returned, and the FS is as NewFS made it.
C17_Witness ==
    /\ lookup["t1"].pc = "done"
    /\ Len(lookup["t1"].calls) = 2
    /\ nodes[fsys.root].read # NoTime
    /\ fsys = [f |-> "backend", root |-> 1, noSeek |-> tunables.NoSeek,
               noChecksum |-> tunables.NoChecksum, readOnly |-> tunables.ReadOnly,
               noModTime |-> tunables.NoModTime, dirCacheTime |-> tunables.DirCacheTime]

\* C18: every iteration of the loop of FS.Lookup, the one that skips an empty
\* name included, leaves the remaining path strictly shorter; the iterations
\* of a call never outnumber the pieces of its path between slashes; and,
\* with every Dir.Lookup call returning, every call that has been entered
\* returns.
C18_LookupTerminates ==
    /\ [][\A t \in Threads :
            (lookup[t].pc = "loop" /\ lookup[t].path # <<>> /\ lookup'[t] # lookup[t]) =>
                /\ Len(lookup'[t].path) < Len(lookup[t].path)
                /\ lookup'[t].iters = lookup[t].iters + 1]_vars
    /\ [](\A t \in Threads : lookup[t].iters <= Len(Pieces(lookup[t].orig)))
    /\ (lookup["t1"].pc = "loop") ~> (lookup["t1"].pc = "done")

\* C18 witness: the lookup of "/a//", a path of four pieces, has returned
\* after three iterations, two of which skipped an empty name.
C18_Witness ==
    /\ lookup["t1"].pc = "done"
    /\ lookup["t1"].orig = <<"/", "a", "/", "/">>
    /\ lookup["t1"].iters = 3
    /\ Len(lookup["t1"].calls) = 1

\* C19: FS.Lookup returns ENOENT from its own not-a-directory check only in
\* an iteration whose name is not empty and whose current node is a File; so
\* a lookup whose every segment has been resolved, the last one to a File,
\* returns that File with a nil error, whatever slashes follow the last
\* segment (a/b/ and b// with files at a/b and b).
C19_TrailingSlashesAfterFile ==
    /\ [][\A t \in Threads :
            (/\ lookup[t].pc = "loop"
             /\ lookup'[t].pc = "done"
             /\ lookup'[t].err = "ENOENT") =>
                /\ SplitName(lookup[t].path) # <<>>
                /\ nodes[lookup[t].node].isFile]_vars
    /\ [](\A t \in Threads :
            LET lk == lookup[t] IN
            (/\ lk.pc = "done"
             /\ lk.calls # <<>>
             /\ Len(lk.calls) = Len(Segments(lk.orig))
             /\ lk.calls[Len(lk.calls)].err = "nil"
             /\ nodes[lk.calls[Len(lk.calls)].node].isFile) =>
                /\ lk.node = lk.calls[Len(lk.calls)].node
                /\ lk.err = "nil")

\* C19 witness: the lookup of "a/b/", with a file at a/b, has returned the
\* File node of a/b and a nil error.
C19_Witness ==
    /\ lookup["t1"].pc = "done"
    /\ lookup["t1"].orig = <<"a", "/", "b", "/">>
    /\ lookup["t1"].err = "nil"
    /\ lookup["t1"].node # NilNode
    /\ nodes[lookup["t1"].node].isFile
    /\ nodes[lookup["t1"].node].path = <<"a", "/", "b">>

====
